---- MODULE Spec2Model ----
(***************************************************************************)
(* GatherHub real-time subsystem: WebSocket consumers (handshake, inbound  *)
(* dispatch, group delivery, disconnect), the channel-layer groups they    *)
(* join, the post_save / post_delete signal receivers that publish to the  *)
(* groups, and the HTTP and socket entry points that add votes or lock an  *)
(* event.                                                                  *)
(***************************************************************************)
EXTENDS Integers, Sequences, FiniteSets, TLC

(* ------------------------------ bounds --------------------------------- *)

\* number of HTTP requests and inbound socket frames a behaviour may start
MaxOps ==
    2

\* the clock runs over 0..MaxTime
MaxTime ==
    1

\* how often the disconnect handler may be invoked on one session
MaxDisconnectCalls ==
    2

(* ------------------------------ universe ------------------------------- *)

Sessions ==
    {"s1", "s2"}

Requests ==
    {"r1", "r2"}

NoUser ==
    "none"

\* rows of accounts.CustomUser: alice, bob and carol are active, zed is not
Users ==
    {"alice", "bob", "carol", "zed"}

IsActive(u) ==
    u \in {"alice", "bob", "carol"}

\* Python strings are sequences of tokens, so that f-strings concatenate and
\* "in" is a substring test; None and "" are both the empty sequence (falsy)
NoSlug ==
    <<>>

\* the one event row of the store starts with the title "A" and the slug
\* "a"; a PATCH may set the title "B"; NoTitle is a PATCH without a title
EventTitle ==
    <<"A">>

NewTitle ==
    <<"B">>

NoTitle ==
    <<>>

\* the slug of the event at the start, and a slug no event has
EventSlug ==
    <<"a">>

UnknownSlug ==
    <<"zz">>

\* the slug of a second event, titled "a_tasks" (slugify keeps underscores);
\* it stays a draft and has no timeslots, votes or tasks
SiblingSlug ==
    <<"a", "_", "tasks">>

EventCreator ==
    "alice"

\* rows of events.TimeSlot, all of the one event: id -> datetime; the rows
\* 1 and 2 exist from the start, a row the creator adds takes the id 3
TimeslotIds ==
    {1, 2}

NewTimeslotId ==
    3

TimeslotDatetime(t) ==
    CASE t = 1 -> 1
      [] t = 2 -> 3
      [] OTHER -> 5

Kinds ==
    {"event", "voting", "tasks"}

\* rows of tasks.Task of the one event: task 1 is unassigned, task 2 is
\* assigned to bob, id 3 is free
TaskIds ==
    {1, 2, 3}

NoTask ==
    [title |-> "", status |-> "none", assigned_to |-> NoUser]

TaskRow(title, status, assigned_to) ==
    [title |-> title, status |-> status, assigned_to |-> assigned_to]

InitialTasks ==
    [t \in TaskIds |->
        CASE t = 1 -> TaskRow("t1", "todo", NoUser)
          [] t = 2 -> TaskRow("t2", "todo", "bob")
          [] OTHER -> NoTask]

(* ------------------------------ state ---------------------------------- *)

VARIABLES
    now,              \* timezone.now()
    evStatus,         \* Event.status of the event that starts with slug EventSlug
    evTitle,          \* Event.title of that event
    evSlug,           \* Event.slug of that event
    votes,            \* rows of voting.Vote: [user, timeslot, created_at]
    uncommitted,      \* changes to votes made in a transaction still open
    timeslots,        \* ids of the rows of events.TimeSlot of the event
    tasks,            \* rows of tasks.Task by id: [title, status, assigned_to]
    layerUp,          \* channel layer: its transport is reachable
    groups,           \* channel layer: set of <<group name, channel>>
    inbox,            \* channel layer: messages queued for each channel
    published,        \* every group_send made so far
    nextId,           \* id of the next group_send
    pc,               \* position of each consumer
    scope,            \* ASGI scope of each connection
    user,             \* BaseConsumer.user
    event_slug,       \* BaseConsumer.event_slug
    room_group_name,  \* BaseConsumer.room_group_name
    accepted,         \* the connection was accepted
    closeCode,        \* code the consumer closed the connection with, 0 if none
    raised,           \* step of connect that raised, "none" if none
    seenStatus,       \* event status read by check_event_access
    out,              \* what each consumer sent to its client, in order
    frame,            \* frame a consumer is handling
    discCalls,        \* number of disconnect calls made on each consumer
    req,              \* HTTP requests in flight
    lastOp,           \* the entry point that completed last, and its outcome
    ops               \* number of operations started

vars ==
    <<now, evStatus, evTitle, evSlug, votes, uncommitted, timeslots, tasks, layerUp, groups, inbox, published, nextId, pc, scope, user,
      event_slug, room_group_name, accepted, closeCode, raised, seenStatus,
      out, frame, discCalls, req, lastOp, ops>>

dbVars ==
    <<now, evStatus, evTitle, evSlug, votes, uncommitted, timeslots>>

layerVars ==
    <<groups, inbox, published, nextId>>

sessVars ==
    <<pc, scope, user, event_slug, room_group_name, accepted, closeCode,
      raised, seenStatus, out, frame, discCalls>>

(* ------------------------------ helpers -------------------------------- *)

NoRoom ==
    <<>>

\* get_room_group_name of the three consumer classes
RoomSuffix(kind) ==
    CASE kind = "event"  -> <<>>
      [] kind = "voting" -> <<"_", "voting">>
      [] kind = "tasks"  -> <<"_", "tasks">>

RoomName(kind, slug) ==
    <<"event", "_">> \o slug \o RoomSuffix(kind)

\* Python's "sub in text"
Contains(text, sub) ==
    \E i \in 1..(Len(text) - Len(sub) + 1) :
        SubSeq(text, i, i + Len(sub) - 1) = sub

\* django.utils.text.slugify on the titles of the model: lower case, blanks
\* to hyphens
Lower(c) ==
    CASE c = "A" -> "a"
      [] c = "B" -> "b"
      [] c = " " -> "-"
      [] OTHER   -> c

slugify(title) ==
    [i \in 1..Len(title) |-> Lower(title[i])]

EventExists(slug) ==
    slug \in {evSlug, SiblingSlug}

\* Event.status of the event with the slug
EventStatus(slug) ==
    IF slug = evSlug THEN evStatus ELSE "draft"

Members(room) ==
    {s \in Sessions : <<room, s>> \in groups}

\* the rows of Vote a query of another connection sees: an insert or a
\* delete made inside transaction.atomic shows once the block is left
CommittedVotes ==
    (votes \ {x.row : x \in {y \in uncommitted : y.op = "insert"}})
        \cup {x.row : x \in {y \in uncommitted : y.op = "delete"}}

\* a transaction still open holds the row of the user and the timeslot, and
\* a second writer of that row waits for it
RowLocked(u, t) ==
    \E x \in uncommitted : x.row.user = u /\ x.row.timeslot = t

\* the changes of the user to the timeslot are committed
Commit(u, t) ==
    uncommitted' =
        {x \in uncommitted : ~(x.row.user = u /\ x.row.timeslot = t)}

VoteCount(t) ==
    Cardinality({v \in CommittedVotes : v.timeslot = t})

HasVote(u, t) ==
    \E v \in CommittedVotes : v.user = u /\ v.timeslot = t

(* ---------------------------- channel layer ----------------------------- *)

\* a group_send that puts the message at the front of each channel's queue
SendToFront(inb, room, msg) ==
    [s \in Sessions |->
        IF <<room, s>> \in groups THEN <<msg>> \o inb[s] ELSE inb[s]]

\* channel_layer.group_send: the message is queued for every channel that is
\* in the group at the time of the call
SendTo(inb, room, msg) ==
    [s \in Sessions |->
        IF <<room, s>> \in groups THEN Append(inb[s], msg) ELSE inb[s]]

RECURSIVE Fanout(_, _, _)
Fanout(inb, sends, id) ==
    IF sends = <<>>
    THEN inb
    ELSE Fanout(SendTo(inb, Head(sends).room,
                       [id     |-> id,
                        type   |-> Head(sends).type,
                        msg    |-> Head(sends).msg,
                        action |-> Head(sends).action,
                        count  |-> Head(sends).count]),
                Tail(sends), id + 1)

GroupSendAll(sends) ==
    /\ layerUp
    /\ inbox' = Fanout(inbox, sends, nextId)
    /\ published' = published \cup
           {[id      |-> nextId + i - 1,
             room    |-> sends[i].room,
             type    |-> sends[i].type,
             msg     |-> sends[i].msg,
             action  |-> sends[i].action,
             count   |-> sends[i].count,
             members |-> Members(sends[i].room)] : i \in 1..Len(sends)}
    /\ nextId' = nextId + Len(sends)

(* --------------------------- signal receivers --------------------------- *)

\* vote_added_signal
VoteAddedSends(slug, count) ==
    << [room |-> RoomName("voting", slug), type |-> "vote_update",
        msg |-> "vote_update", action |-> "added", count |-> count],
       [room |-> RoomName("event", slug), type |-> "event_update",
        msg |-> "vote_update", action |-> "added", count |-> count] >>

\* vote_removed_signal
VoteRemovedSends(slug, count) ==
    << [room |-> RoomName("voting", slug), type |-> "vote_update",
        msg |-> "vote_update", action |-> "removed", count |-> count],
       [room |-> RoomName("event", slug), type |-> "event_update",
        msg |-> "vote_update", action |-> "removed", count |-> count] >>

\* event_updated_signal, for a save of an existing event
EventUpdatedRoomType(room) ==
    IF ~Contains(room, <<"voting">>) THEN "event_update" ELSE "event_locked"

EventUpdatedSends(slug, status) ==
    [i \in 1..3 |->
        LET room == RoomName(<<"event", "voting", "tasks">>[i], slug)
        IN  [room   |-> room,
             type   |-> EventUpdatedRoomType(room),
             msg    |-> "event_update",
             action |-> IF status = "locked" THEN "locked" ELSE "modified",
             count  |-> -1]]

\* task_updated_signal (action "created" or "updated") and
\* task_deleted_signal (action "deleted")
TaskSends(slug, action) ==
    << [room |-> RoomName("tasks", slug), type |-> "task_update",
        msg |-> "task_update", action |-> action, count |-> -1],
       [room |-> RoomName("event", slug), type |-> "event_update",
        msg |-> "task_update", action |-> action, count |-> -1] >>

\* timeslot_added_signal and timeslot_removed_signal: one group message of
\* the type to each of the three rooms
TimeslotSends(slug, type) ==
    [i \in 1..3 |->
        [room   |-> RoomName(<<"event", "voting", "tasks">>[i], slug),
         type   |-> type,
         msg    |-> "event_update",
         action |-> type,
         count  |-> -1]]

(* ------------------------------ handshake ------------------------------- *)

\* a credential is absent ("none"), malformed or expired ("bad"), or a valid
\* token of a user row
Tokens ==
    {"none", "bad"} \cup Users

\* every handshake request
AllScopes ==
    [kind : Kinds, token : Tokens, slug : {NoSlug, EventSlug, UnknownSlug}]

\* an authentication that does not look at is_active
authenticate_any_user(token) ==
    IF token \in Users THEN token ELSE NoUser

\* BaseConsumer.authenticate_token: None for an invalid token and for an
\* inactive user
authenticate_token(token) ==
    IF token \in Users /\ IsActive(token) THEN token ELSE NoUser

\* an access check that admits to a draft event only, on every channel
check_event_draft(kind, slug, status) ==
    EventExists(slug) /\ status = "draft"

\* the access check of the base class on every channel
check_event_exists(kind, slug, status) ==
    EventExists(slug)

\* check_event_access of the three consumer classes
check_event_access(kind, slug, status) ==
    IF ~EventExists(slug)
    THEN FALSE
    ELSE IF kind = "voting" THEN status = "draft" ELSE TRUE

\* one message sent to the client: type, id of the group message it forwards
\* (0 if none), message or action text, details, vote count, snapshot counts;
\* user and slug are the user_id and event_slug of connection_established
Entry(type, id, text, details, count, counts) ==
    [type |-> type, id |-> id, text |-> text, hasDetails |-> FALSE,
     details |-> details, count |-> count, counts |-> counts,
     user |-> NoUser, slug |-> NoSlug]

Send(s, e) ==
    out' = [out EXCEPT ![s] = Append(@, e)]

\* self.close(code) before the subclass continues with its snapshot
CloseAt(s, code, step) ==
    /\ closeCode' = [closeCode EXCEPT ![s] = code]
    /\ raised' = [raised EXCEPT ![s] = step]
    /\ pc' = [pc EXCEPT ![s] = "snapshot"]

\* BaseConsumer.connect, lines 32-47: token, user, event slug
ConnectAuthenticate(s, scopes) ==
    /\ pc[s] = "idle"
    /\ \E sc \in scopes, fails \in BOOLEAN :
        LET u == authenticate_token(sc.token)
        IN  /\ scope' = [scope EXCEPT ![s] = sc]
            /\ IF fails
               THEN /\ CloseAt(s, 4000, "get_token")
                    /\ UNCHANGED <<user, event_slug>>
               ELSE IF sc.token = "none"
               THEN /\ CloseAt(s, 4001, "none")
                    /\ UNCHANGED <<user, event_slug>>
               ELSE IF u = NoUser
               THEN /\ CloseAt(s, 4001, "none")
                    /\ UNCHANGED <<user, event_slug>>
               ELSE /\ user' = [user EXCEPT ![s] = u]
                    /\ event_slug' = [event_slug EXCEPT ![s] = sc.slug]
                    /\ IF sc.slug = NoSlug
                       THEN CloseAt(s, 4002, "none")
                       ELSE /\ pc' = [pc EXCEPT ![s] = "access"]
                            /\ UNCHANGED <<closeCode, raised>>
    /\ UNCHANGED <<layerUp, tasks, dbVars, layerVars, room_group_name, accepted, seenStatus,
                   out, frame, discCalls, req, lastOp, ops>>

\* BaseConsumer.connect, lines 49-52
ConnectCheckAccess(s) ==
    /\ pc[s] = "access"
    /\ \E fails \in BOOLEAN :
        IF fails
        THEN /\ CloseAt(s, 4000, "check_event_access")
             /\ UNCHANGED seenStatus
        ELSE /\ seenStatus' = [seenStatus EXCEPT ![s] =
                    IF EventExists(event_slug[s])
                    THEN EventStatus(event_slug[s]) ELSE "missing"]
             /\ IF check_event_access(scope[s].kind, event_slug[s],
                                      EventStatus(event_slug[s]))
                THEN /\ pc' = [pc EXCEPT ![s] = "join"]
                     /\ UNCHANGED <<closeCode, raised>>
                ELSE CloseAt(s, 4003, "none")
    /\ UNCHANGED <<layerUp, tasks, dbVars, layerVars, scope, user, event_slug,
                   room_group_name, accepted, out, frame, discCalls, req,
                   lastOp, ops>>

\* BaseConsumer.connect, lines 54-62
ConnectJoin(s) ==
    /\ pc[s] = "join"
    /\ room_group_name' = [room_group_name EXCEPT ![s] =
            RoomName(scope[s].kind, event_slug[s])]
    /\ \E fails \in BOOLEAN :
        IF fails
        THEN /\ CloseAt(s, 4000, "group_add")
             /\ UNCHANGED groups
        ELSE /\ groups' = groups \cup {<<room_group_name'[s], s>>}
             /\ pc' = [pc EXCEPT ![s] = "accept"]
             /\ UNCHANGED <<closeCode, raised>>
    /\ UNCHANGED <<layerUp, tasks, dbVars, inbox, published, nextId, scope, user, event_slug,
                   accepted, seenStatus, out, frame, discCalls, req, lastOp,
                   ops>>

\* BaseConsumer.connect, lines 64-76
ConnectAccept(s) ==
    /\ pc[s] = "accept"
    /\ accepted' = [accepted EXCEPT ![s] = TRUE]
    /\ Send(s, [Entry("connection_established", 0, <<>>, room_group_name[s],
                       -1, <<>>)
                    EXCEPT !.user = user[s], !.slug = event_slug[s]])
    /\ pc' = [pc EXCEPT ![s] = "snapshot"]
    /\ UNCHANGED <<layerUp, tasks, dbVars, layerVars, scope, user, event_slug,
                   room_group_name, closeCode, raised, seenStatus, frame,
                   discCalls, req, lastOp, ops>>

SnapshotType(kind) ==
    CASE kind = "event"  -> "event_data"
      [] kind = "voting" -> "voting_data"
      [] kind = "tasks"  -> "tasks_data"

\* the part of connect of EventConsumer, VotingConsumer and TasksConsumer
\* that follows super().connect()
ConnectSnapshot(s) ==
    /\ pc[s] = "snapshot"
    /\ IF user[s] # NoUser /\ EventExists(event_slug[s])
       THEN Send(s, Entry(SnapshotType(scope[s].kind), 0, <<>>, event_slug[s], -1,
                          IF scope[s].kind = "voting"
                          THEN [t \in timeslots |-> VoteCount(t)]
                          ELSE <<>>))
       ELSE UNCHANGED out
    /\ pc' = [pc EXCEPT ![s] = "ready"]
    /\ UNCHANGED <<layerUp, tasks, dbVars, layerVars, scope, user, event_slug,
                   room_group_name, accepted, closeCode, raised, seenStatus,
                   frame, discCalls, req, lastOp, ops>>

(* ------------------------- delivery and disconnect ---------------------- *)

\* the group message handlers each consumer class defines
GroupHandlers(kind) ==
    CASE kind = "event"  -> {"broadcast_message", "event_update",
                             "event_locked", "timeslot_added",
                             "timeslot_removed"}
      [] kind = "voting" -> {"broadcast_message", "vote_update",
                             "event_locked"}
      [] kind = "tasks"  -> {"broadcast_message", "task_update"}

\* a dispatch that does not wait for connect to return
deliver_during_connect(s) ==
    /\ pc[s] \in {"snapshot", "ready"}
    /\ closeCode[s] = 0
    /\ inbox[s] # <<>>
    /\ LET m == Head(inbox[s])
       IN  /\ inbox' = [inbox EXCEPT ![s] = Tail(@)]
           /\ IF m.type \in GroupHandlers(scope[s].kind)
              THEN /\ Send(s, Entry(m.msg, m.id, <<m.action>>, <<>>, m.count, <<>>))
                   /\ UNCHANGED pc
              ELSE /\ pc' = [pc EXCEPT ![s] = "crashed"]
                   /\ UNCHANGED out
    /\ UNCHANGED <<layerUp, tasks, dbVars, groups, published, nextId, scope, user, event_slug,
                   room_group_name, accepted, closeCode, raised, seenStatus,
                   frame, discCalls, req, lastOp, ops>>

\* dispatch of one queued group message: the handler forwards the message to
\* the client; a type without a handler ends the consumer with an exception,
\* and its disconnect handler never runs
Deliver(s) ==
    /\ pc[s] = "ready"
    /\ closeCode[s] = 0
    /\ inbox[s] # <<>>
    /\ LET m == Head(inbox[s])
       IN  /\ inbox' = [inbox EXCEPT ![s] = Tail(@)]
           /\ IF m.type \in GroupHandlers(scope[s].kind)
              THEN /\ Send(s, Entry(m.msg, m.id, <<m.action>>, <<>>, m.count, <<>>))
                   /\ UNCHANGED pc
              ELSE /\ pc' = [pc EXCEPT ![s] = "crashed"]
                   /\ UNCHANGED out
    /\ UNCHANGED <<layerUp, tasks, dbVars, groups, published, nextId, scope, user, event_slug,
                   room_group_name, accepted, closeCode, raised, seenStatus,
                   frame, discCalls, req, lastOp, ops>>

\* a discard keyed by the user of the connection instead of its channel
group_discard_by_user(room, s) ==
    {g \in groups : ~(g[1] = room /\ user[g[2]] = user[s])}

\* channel_layer.group_discard
group_discard(room, s) ==
    groups \ {<<room, s>>}

\* a disconnect that leaves the group alone
disconnect_without_discard(s) ==
    groups

\* BaseConsumer.disconnect
disconnect(s) ==
    IF room_group_name[s] # NoRoom
    THEN group_discard(room_group_name[s], s)
    ELSE groups

\* the connection ended (the client left, or the server closed it during
\* the handshake): the disconnect handler runs and the consumer stops;
\* the handler may be invoked again on the stopped consumer
Disconnect(s) ==
    /\ pc[s] \in {"ready", "stopped"}
    /\ discCalls[s] < MaxDisconnectCalls
    /\ groups' = disconnect(s)
    /\ discCalls' = [discCalls EXCEPT ![s] = @ + 1]
    /\ pc' = [pc EXCEPT ![s] = "stopped"]
    /\ UNCHANGED <<layerUp, tasks, dbVars, inbox, published, nextId, scope, user, event_slug,
                   room_group_name, accepted, closeCode, raised, seenStatus,
                   out, frame, req, lastOp, ops>>

(* ----------------------------- vote store ------------------------------- *)

TimeslotExists(t, slug) ==
    t \in timeslots /\ slug = evSlug

VoteRow(u, t) ==
    [user |-> u, timeslot |-> t, created_at |-> now]

VotesOf(u, t) ==
    {v \in CommittedVotes : v.user = u /\ v.timeslot = t}

\* a plain create in place of get_or_create
create_without_get(u, t) ==
    [created |-> TRUE, votes |-> votes \cup {VoteRow(u, t)}]

\* Vote.objects.get_or_create(user=u, timeslot=t)
get_or_create(u, t) ==
    IF HasVote(u, t)
    THEN [created |-> FALSE, votes |-> votes]
    ELSE [created |-> TRUE, votes |-> votes \cup {VoteRow(u, t)}]

\* the outcome of a request, with the time the request was received
Completed(entry, u, ts, at, result) ==
    lastOp' = [n |-> lastOp.n + 1, entry |-> entry, user |-> u,
               timeslots |-> ts, at |-> at, result |-> result]

(* --------------------------- inbound frames ----------------------------- *)

\* a text frame: malformed JSON, JSON that is not an object, or an object
\* with or without a "type" key; arg is its timeslot_id: 0 absent, -1 not a
\* number; at is the time the frame is received; data holds the other keys
\* of the object as <<key, value>> pairs; sent is the id of the first group
\* message its handler published, 0 if none
Frame(json, hasType, type, arg) ==
    [json |-> json, hasType |-> hasType, type |-> type, arg |-> arg,
     at |-> 0, data |-> {}, sent |-> 0]

Frames ==
    {Frame("malformed", FALSE, <<>>, 0),
     Frame("nonobject", FALSE, <<>>, 0),
     Frame("object", FALSE, <<>>, 0),
     Frame("object", TRUE, <<>>, 0),
     Frame("object", TRUE, <<"bogus">>, 0),
     Frame("object", TRUE, <<"ping">>, 0)}
    \cup {Frame("object", TRUE, <<"vote_add">>, a) : a \in {-1, 0, 1, 2, 9}}
    \cup {Frame("object", TRUE, <<"vote_remove">>, a) : a \in {0, 1}}

\* the handle_* methods each consumer class defines
MessageHandlers(kind) ==
    CASE kind = "event"  -> {<<"handle_", "ping">>}
      [] kind = "voting" -> {<<"handle_", "vote_add">>,
                             <<"handle_", "vote_remove">>}
      [] kind = "tasks"  -> {<<"handle_", "task_create">>,
                             <<"handle_", "task_update">>,
                             <<"handle_", "task_delete">>}

\* data.get('type'): None when the key is absent
message_type(f) ==
    IF f.hasType THEN f.type ELSE <<>>

\* f'handle_{message_type}'
handler_name(f) ==
    <<"handle_">> \o (IF f.hasType THEN f.type ELSE <<"None">>)

\* BaseConsumer.send_error: details are attached only when truthy
send_error(s, message, details) ==
    Send(s, [Entry("error", 0, <<message>>, <<>>, -1, <<>>)
                EXCEPT !.hasDetails = details # <<>>,
                       !.details = IF details # <<>> THEN details ELSE <<>>])

\* BaseConsumer.receive with the handlers it dispatches to, up to the point
\* where a handler enters the database
Receive(s, frames) ==
    /\ pc[s] = "ready"
    /\ accepted[s]
    /\ closeCode[s] = 0
    /\ ops < MaxOps
    /\ ops' = ops + 1
    /\ \E f \in frames :
        /\ frame' = [frame EXCEPT ![s] = [f EXCEPT !.at = now]]
        /\ IF f.json = "malformed"
           THEN /\ send_error(s, "Invalid JSON format", <<>>)
                /\ UNCHANGED pc
           ELSE IF f.json = "nonobject"
           THEN /\ send_error(s, "Internal server error", <<>>)
                /\ UNCHANGED pc
           ELSE IF handler_name(f) \notin MessageHandlers(scope[s].kind)
           THEN /\ send_error(s, "Unknown message type", message_type(f))
                /\ UNCHANGED pc
           ELSE IF f.type = <<"ping">>
           THEN /\ Send(s, Entry("pong", 0, <<>>, <<>>, -1, <<>>))
                /\ UNCHANGED pc
           ELSE IF f.arg = 0
           THEN /\ send_error(s, "Missing timeslot_id", <<>>)
                /\ UNCHANGED pc
           ELSE IF f.arg = -1
           THEN /\ send_error(s, "Internal server error", <<>>)
                /\ UNCHANGED pc
           ELSE /\ pc' = [pc EXCEPT ![s] =
                        IF f.type = <<"vote_add">> THEN "add_vote"
                                                   ELSE "remove_vote"]
                /\ UNCHANGED out
    /\ UNCHANGED <<layerUp, tasks, dbVars, layerVars, scope, user, event_slug,
                   room_group_name, accepted, closeCode, raised, seenStatus,
                   discCalls, req, lastOp>>

\* VotingConsumer.add_vote, lines 112-119, and remove_vote, lines 153-160:
\* the timeslot lookup and the status check
SocketVoteCheck(s) ==
    /\ pc[s] \in {"add_vote", "remove_vote"}
    /\ LET t == frame[s].arg
           adding == pc[s] = "add_vote"
       IN  IF TimeslotExists(t, event_slug[s]) /\ evStatus = "draft"
           THEN /\ pc' = [pc EXCEPT ![s] =
                        IF adding THEN "add_vote_write" ELSE "remove_vote_write"]
                /\ UNCHANGED <<out, lastOp>>
           ELSE /\ send_error(s, IF adding THEN "Failed to add vote"
                                           ELSE "Failed to remove vote", <<>>)
                /\ Completed(IF adding THEN "socket_add" ELSE "socket_remove",
                             user[s], {t}, frame[s].at, "refused")
                /\ pc' = [pc EXCEPT ![s] = "ready"]
    /\ UNCHANGED <<layerUp, tasks, dbVars, layerVars, scope, user, event_slug,
                   room_group_name, accepted, closeCode, raised, seenStatus,
                   frame, discCalls, req, ops>>

\* VotingConsumer.add_vote, lines 121-125: get_or_create, which inserts
\* inside transaction.atomic, with the post_save receiver the insert fires
\* before the block is left
SocketVoteAdd(s) ==
    /\ pc[s] = "add_vote_write"
    /\ ~RowLocked(user[s], frame[s].arg)
    /\ LET t == frame[s].arg
           r == get_or_create(user[s], t)
       IN  /\ votes' = r.votes
           /\ IF r.created
              THEN /\ uncommitted' = uncommitted \cup
                        {[row |-> VoteRow(user[s], t), op |-> "insert"]}
                   /\ GroupSendAll(VoteAddedSends(event_slug[s],
                        VoteCount(t) + 1))
                   /\ frame' = [frame EXCEPT ![s].sent = nextId]
                   /\ Completed("socket_add", user[s], {t}, frame[s].at, "added")
                   /\ pc' = [pc EXCEPT ![s] = "add_vote_commit"]
                   /\ UNCHANGED out
              ELSE /\ send_error(s, "Failed to add vote", <<>>)
                   /\ Completed("socket_add", user[s], {t}, frame[s].at, "refused")
                   /\ pc' = [pc EXCEPT ![s] = "ready"]
                   /\ UNCHANGED <<uncommitted, inbox, published, nextId, frame>>
    /\ UNCHANGED <<timeslots, layerUp, tasks, now, evStatus, evTitle, evSlug, groups, scope, user, event_slug,
                   room_group_name, accepted, closeCode, raised, seenStatus,
                   discCalls, req, ops>>

\* VotingConsumer.remove_vote, lines 162-166: the delete, which runs inside
\* transaction.atomic, with the post_delete receiver it fires before the
\* block is left
SocketVoteRemove(s) ==
    /\ pc[s] = "remove_vote_write"
    /\ ~RowLocked(user[s], frame[s].arg)
    /\ LET t == frame[s].arg
           gone == VotesOf(user[s], t)
       IN  /\ votes' = votes \ gone
           /\ IF gone # {}
              THEN /\ uncommitted' = uncommitted \cup
                        {[row |-> v, op |-> "delete"] : v \in gone}
                   /\ GroupSendAll(VoteRemovedSends(evSlug,
                        VoteCount(t) - Cardinality(gone)))
                   /\ frame' = [frame EXCEPT ![s].sent = nextId]
                   /\ Completed("socket_remove", user[s], {t}, frame[s].at, "removed")
                   /\ pc' = [pc EXCEPT ![s] = "remove_vote_commit"]
                   /\ UNCHANGED out
              ELSE /\ send_error(s, "Failed to remove vote", <<>>)
                   /\ Completed("socket_remove", user[s], {t}, frame[s].at, "refused")
                   /\ pc' = [pc EXCEPT ![s] = "ready"]
                   /\ UNCHANGED <<uncommitted, inbox, published, nextId, frame>>
    /\ UNCHANGED <<timeslots, layerUp, tasks, now, evStatus, evTitle, evSlug, groups, scope, user, event_slug,
                   room_group_name, accepted, closeCode, raised, seenStatus,
                   discCalls, req, ops>>

\* VotingConsumer.add_vote, line 121, and remove_vote, line 162: the write
\* returns, and the transaction.atomic block around it is left
SocketVoteCommit(s) ==
    /\ pc[s] \in {"add_vote_commit", "remove_vote_commit"}
    /\ Commit(user[s], frame[s].arg)
    /\ pc' = [pc EXCEPT ![s] = IF pc[s] = "add_vote_commit"
                               THEN "add_vote_count"
                               ELSE "remove_vote_count"]
    /\ UNCHANGED <<layerUp, tasks, now, evStatus, evTitle, evSlug, votes,
                   timeslots, layerVars, scope, user, event_slug,
                   room_group_name, accepted, closeCode, raised, seenStatus,
                   out, frame, discCalls, req, lastOp, ops>>

\* VotingConsumer.add_vote, lines 127-140, and remove_vote, lines 168-181:
\* the count query that follows the write, and the reply of handle_vote_add
\* or handle_vote_remove that carries it
SocketVoteCount(s) ==
    /\ pc[s] \in {"add_vote_count", "remove_vote_count"}
    /\ Send(s, Entry(IF pc[s] = "add_vote_count" THEN "vote_added"
                                                 ELSE "vote_removed",
                     0, <<>>, <<>>, VoteCount(frame[s].arg), <<>>))
    /\ pc' = [pc EXCEPT ![s] = "ready"]
    /\ UNCHANGED <<layerUp, tasks, dbVars, layerVars, scope, user, event_slug,
                   room_group_name, accepted, closeCode, raised, seenStatus,
                   frame, discCalls, req, lastOp, ops>>

(* ----------------------------- socket tasks ----------------------------- *)

\* a task frame: type, task_id (0 when absent) and its other keys
TaskFrame(type, task_id, data) ==
    [Frame("object", TRUE, <<type>>, task_id) EXCEPT !.data = data]

\* 'key' in updates, and updates['key']
HasKey(data, key) ==
    \E p \in data : p[1] = key

Get(data, key) ==
    (CHOOSE p \in data : p[1] = key)[2]

\* Task.objects.get(id=task_id, event__slug=self.event_slug) finds a row
TaskExists(id, slug) ==
    id \in TaskIds /\ tasks[id] # NoTask /\ slug = evSlug

\* TaskConsumer.update_task up to task.save(): the row to save, or none
\* (ok FALSE) when the task or the new assignee does not exist
update_task(id, updates, slug) ==
    IF ~TaskExists(id, slug)
    THEN [ok |-> FALSE, row |-> NoTask]
    ELSE LET a == IF /\ HasKey(updates, "status")
                     /\ Get(updates, "status") \in {"todo", "doing", "done"}
                  THEN [tasks[id] EXCEPT !.status = Get(updates, "status")]
                  ELSE tasks[id]
             b == IF ~HasKey(updates, "assigned_to_id")
                  THEN a
                  ELSE IF Get(updates, "assigned_to_id") = ""
                  THEN [a EXCEPT !.assigned_to = NoUser]
                  ELSE [a EXCEPT !.assigned_to = Get(updates, "assigned_to_id")]
             c == IF HasKey(updates, "title") /\ Get(updates, "title") # ""
                  THEN [b EXCEPT !.title = Get(updates, "title")]
                  ELSE b
         IN  IF /\ HasKey(updates, "assigned_to_id")
                /\ Get(updates, "assigned_to_id") \notin Users \cup {""}
             THEN [ok |-> FALSE, row |-> NoTask]
             ELSE [ok |-> TRUE, row |-> c]

\* TaskConsumer.handle_task_update with update_task and the post_save
\* receiver of Task
handle_task_update(s, f) ==
    IF f.arg = 0
    THEN /\ send_error(s, "Missing task_id", <<>>)
         /\ Completed("socket_task_update", user[s], {}, now, "refused")
         /\ UNCHANGED <<tasks, inbox, published, nextId>>
    ELSE LET r == update_task(f.arg, f.data, event_slug[s])
         IN  IF r.ok
             THEN /\ tasks' = [tasks EXCEPT ![f.arg] = r.row]
                  /\ GroupSendAll(TaskSends(evSlug, "updated"))
                  /\ Send(s, Entry("task_updated", 0, <<>>, <<>>, -1, <<>>))
                  /\ Completed("socket_task_update", user[s], {f.arg}, now,
                               "updated")
             ELSE /\ send_error(s, "Failed to update task", <<>>)
                  /\ Completed("socket_task_update", user[s], {f.arg}, now,
                               "refused")
                  /\ UNCHANGED <<tasks, inbox, published, nextId>>

\* TaskConsumer.handle_task_delete with delete_task and the post_delete
\* receiver of Task
handle_task_delete(s, f) ==
    IF f.arg = 0
    THEN /\ send_error(s, "Missing task_id", <<>>)
         /\ Completed("socket_task_delete", user[s], {}, now, "refused")
         /\ UNCHANGED <<tasks, inbox, published, nextId>>
    ELSE IF TaskExists(f.arg, event_slug[s])
    THEN /\ tasks' = [tasks EXCEPT ![f.arg] = NoTask]
         /\ GroupSendAll(TaskSends(evSlug, "deleted"))
         /\ Send(s, Entry("task_deleted", 0, <<>>, <<>>, -1, <<>>))
         /\ Completed("socket_task_delete", user[s], {f.arg}, now, "deleted")
    ELSE /\ send_error(s, "Failed to delete task", <<>>)
         /\ Completed("socket_task_delete", user[s], {f.arg}, now, "refused")
         /\ UNCHANGED <<tasks, inbox, published, nextId>>

\* TaskConsumer.handle_task_create with create_task and the post_save
\* receiver of Task; the new row takes the next free id
handle_task_create(s, f) ==
    IF ~HasKey(f.data, "title") \/ Get(f.data, "title") = ""
    THEN /\ send_error(s, "Missing task title", <<>>)
         /\ Completed("socket_task_create", user[s], {}, now, "refused")
         /\ UNCHANGED <<tasks, inbox, published, nextId>>
    ELSE IF EventExists(event_slug[s])
    THEN \E id \in TaskIds :
            /\ tasks[id] = NoTask
            /\ \A j \in TaskIds : j < id => tasks[j] # NoTask
            /\ tasks' = [tasks EXCEPT ![id] =
                    TaskRow(Get(f.data, "title"), "todo", NoUser)]
            /\ GroupSendAll(TaskSends(evSlug, "created"))
            /\ Send(s, Entry("task_created", 0, <<>>, <<>>, -1, <<>>))
            /\ Completed("socket_task_create", user[s], {id}, now, "created")
    ELSE /\ send_error(s, "Failed to create task", <<>>)
         /\ Completed("socket_task_create", user[s], {}, now, "refused")
         /\ UNCHANGED <<tasks, inbox, published, nextId>>

\* BaseConsumer.receive of a frame that TaskConsumer has a handler for, on a
\* connection that was not made for the second event
ReceiveTask(s, frames) ==
    /\ pc[s] = "ready"
    /\ event_slug[s] # SiblingSlug
    /\ accepted[s]
    /\ closeCode[s] = 0
    /\ ops < MaxOps
    /\ ops' = ops + 1
    /\ \E f \in frames :
        /\ f.json = "object"
        /\ handler_name(f) \in MessageHandlers(scope[s].kind)
        /\ frame' = [frame EXCEPT ![s] = [f EXCEPT !.at = now]]
        /\ CASE f.type = <<"task_create">> -> handle_task_create(s, f)
             [] f.type = <<"task_update">> -> handle_task_update(s, f)
             [] f.type = <<"task_delete">> -> handle_task_delete(s, f)
    /\ UNCHANGED <<uncommitted, timeslots, layerUp, now, evStatus, evTitle, evSlug, votes, groups, pc, scope, user, event_slug,
                   room_group_name, accepted, closeCode, raised, seenStatus,
                   discCalls, req>>

(* ----------------------------- HTTP requests ---------------------------- *)

\* request.user of an authenticated request
Principals ==
    {"alice", "bob"}

\* a request: its position, its user and input, and what it has read: the
\* votes and the count it found, the time, and the status, title and slug of
\* the event instance it loaded; newTitle is the title of a PATCH
IdleRequest ==
    [pc |-> "idle", user |-> NoUser, ts |-> {}, method |-> "none",
     existing |-> {}, count |-> 0, at |-> 0, status |-> "none",
     title |-> NoTitle, slug |-> NoSlug, newTitle |-> NoTitle]

Loaded(step, u, ts, method, existing, count) ==
    [pc |-> step, user |-> u, ts |-> ts, method |-> method,
     existing |-> existing, count |-> count, at |-> now,
     status |-> evStatus, title |-> evTitle, slug |-> evSlug,
     newTitle |-> NoTitle]

Begin(r, step, u, ts, method, existing, count) ==
    req' = [req EXCEPT ![r] = Loaded(step, u, ts, method, existing, count)]

\* the three vote checks shared by VoteCreateSerializer.validate_timeslot and
\* BulkVoteSerializer.validate_timeslot_ids
VoteAllowed(u, t) ==
    /\ ~(TimeslotDatetime(t) <= now)
    /\ evStatus # "locked"
    /\ EventCreator # u

\* VoteViewSet.create up to serializer.is_valid():
\* CanVoteOnTimeslot.has_permission, VoteCreateSerializer.validate_timeslot
\* and VoteCreateSerializer.validate
HttpCreateValidate(r, users, slots) ==
    /\ req[r].pc = "idle"
    /\ ops < MaxOps
    /\ ops' = ops + 1
    /\ \E u \in users, t \in slots :
        IF t \in timeslots /\ VoteAllowed(u, t) /\ ~HasVote(u, t)
        THEN /\ Begin(r, "create_save", u, {t}, "POST", {}, 0)
             /\ UNCHANGED lastOp
        ELSE /\ Completed("http_create", u, {t}, now, "refused")
             /\ UNCHANGED req
    /\ UNCHANGED <<layerUp, tasks, dbVars, layerVars, sessVars>>

\* VoteViewSet.perform_create: the insert, which the unique constraint of
\* Vote may refuse, and the post_save receiver
HttpCreateSave(r) ==
    /\ req[r].pc = "create_save"
    /\ LET u == req[r].user
           t == CHOOSE x \in req[r].ts : TRUE
       IN  /\ ~RowLocked(u, t)
           /\ IF HasVote(u, t)
              THEN /\ Completed("http_create", u, {t}, req[r].at, "refused")
                   /\ UNCHANGED <<votes, inbox, published, nextId>>
              ELSE /\ votes' = votes \cup {VoteRow(u, t)}
                   /\ GroupSendAll(VoteAddedSends(req[r].slug,
                            VoteCount(t) + 1))
                   /\ Completed("http_create", u, {t}, req[r].at, "added")
    /\ req' = [req EXCEPT ![r] = IdleRequest]
    /\ UNCHANGED <<uncommitted, timeslots, layerUp, tasks, now, evStatus, evTitle, evSlug, groups, sessVars, ops>>

\* TimeslotVotingViewSet.vote, lines 122-125: get_object, which checks no
\* object permission, and the read of the existing vote
HttpToggleRead(r, users, slots) ==
    /\ req[r].pc = "idle"
    /\ ops < MaxOps
    /\ ops' = ops + 1
    /\ \E u \in users, t \in slots,
          method \in {"POST", "DELETE"} :
        IF t \notin timeslots
        THEN /\ Completed("http_toggle", u, {t}, now, "refused")
             /\ UNCHANGED req
        ELSE IF method = "DELETE" /\ VotesOf(u, t) = {}
        THEN /\ Completed("http_unvote", u, {t}, now, "refused")
             /\ UNCHANGED req
        ELSE /\ Begin(r, "toggle_write", u, {t}, method, VotesOf(u, t),
                      VoteCount(t))
             /\ UNCHANGED lastOp
    /\ UNCHANGED <<layerUp, tasks, dbVars, layerVars, sessVars>>

\* TimeslotVotingViewSet.vote, lines 127-152: delete the vote that was read,
\* or create one; the delete runs inside transaction.atomic and its receivers
\* fire before the block is left, for the delete of a row that is already
\* gone too; the post_save receiver counts the prefetched votes
HttpToggleWrite(r) ==
    /\ req[r].pc = "toggle_write"
    /\ LET u == req[r].user
           t == CHOOSE x \in req[r].ts : TRUE
           entry == IF req[r].method = "POST" THEN "http_toggle"
                                              ELSE "http_unvote"
       IN  /\ ~RowLocked(u, t)
           /\ IF req[r].existing # {}
              THEN /\ votes' = votes \ req[r].existing
                   /\ uncommitted' = uncommitted \cup
                        {[row |-> v, op |-> "delete"] :
                            v \in req[r].existing \cap votes}
                   /\ GroupSendAll(VoteRemovedSends(evSlug,
                        Cardinality({v \in CommittedVotes \ req[r].existing :
                                        v.timeslot = t})))
                   /\ Completed(entry, u, {t}, req[r].at, "removed")
                   /\ req' = [req EXCEPT ![r].pc = "toggle_commit"]
              ELSE IF HasVote(u, t)
              THEN /\ Completed(entry, u, {t}, req[r].at, "refused")
                   /\ req' = [req EXCEPT ![r] = IdleRequest]
                   /\ UNCHANGED <<votes, uncommitted, inbox, published, nextId>>
              ELSE /\ votes' = votes \cup {VoteRow(u, t)}
                   /\ GroupSendAll(VoteAddedSends(req[r].slug, req[r].count))
                   /\ Completed(entry, u, {t}, req[r].at, "added")
                   /\ req' = [req EXCEPT ![r] = IdleRequest]
                   /\ UNCHANGED uncommitted
    /\ UNCHANGED <<timeslots, layerUp, tasks, now, evStatus, evTitle, evSlug, groups, sessVars, ops>>

\* TimeslotVotingViewSet.vote, line 129: existing_vote.delete() returns, and
\* the transaction.atomic block around the delete is left
HttpToggleCommit(r) ==
    /\ req[r].pc = "toggle_commit"
    /\ Commit(req[r].user, CHOOSE x \in req[r].ts : TRUE)
    /\ req' = [req EXCEPT ![r] = IdleRequest]
    /\ UNCHANGED <<layerUp, tasks, now, evStatus, evTitle, evSlug, votes,
                   timeslots, layerVars, sessVars, lastOp, ops>>

\* EventVotingViewSet.bulk_vote up to serializer.is_valid():
\* BulkVoteSerializer.validate_timeslot_ids
HttpBulkValidate(r, users, idsets) ==
    /\ req[r].pc = "idle"
    /\ ops < MaxOps
    /\ ops' = ops + 1
    /\ \E u \in users, ids \in idsets :
        IF ids \subseteq timeslots /\ \A t \in ids : VoteAllowed(u, t)
        THEN /\ Begin(r, "bulk_save", u, ids, "POST", {}, 0)
             /\ UNCHANGED lastOp
        ELSE /\ Completed("http_bulk", u, ids, now, "refused")
             /\ UNCHANGED req
    /\ UNCHANGED <<layerUp, tasks, dbVars, layerVars, sessVars>>

\* BulkVoteSerializer.create: bulk_create of the votes that do not exist yet;
\* bulk_create sends no post_save signal
HttpBulkSave(r) ==
    /\ req[r].pc = "bulk_save"
    /\ LET u == req[r].user
           fresh == {t \in req[r].ts : ~HasVote(u, t)}
       IN  /\ \A t \in req[r].ts : ~RowLocked(u, t)
           /\ votes' = votes \cup {VoteRow(u, t) : t \in fresh}
           /\ Completed("http_bulk", u, req[r].ts, req[r].at,
                        IF fresh = {} THEN "skipped" ELSE "added")
    /\ req' = [req EXCEPT ![r] = IdleRequest]
    /\ UNCHANGED <<uncommitted, timeslots, layerUp, tasks, now, evStatus, evTitle, evSlug, layerVars, sessVars, ops>>

\* EventViewSet.lock up to serializer.is_valid(): IsEventCreatorOrReadOnly
\* and EventLockSerializer.validate
HttpLockValidate(r, users) ==
    /\ req[r].pc = "idle"
    /\ ops < MaxOps
    /\ ops' = ops + 1
    /\ \E u \in users :
        IF u = EventCreator /\ evStatus # "locked" /\ timeslots # {}
        THEN /\ Begin(r, "lock_save", u, {}, "POST", {}, 0)
             /\ UNCHANGED lastOp
        ELSE /\ Completed("http_lock", u, {}, now, "refused")
             /\ UNCHANGED req
    /\ UNCHANGED <<layerUp, tasks, dbVars, layerVars, sessVars>>

\* EventLockSerializer.save with the post_save receiver of Event: event.save()
\* writes every field of the instance the view loaded
HttpLockSave(r) ==
    /\ req[r].pc = "lock_save"
    /\ evStatus' = "locked"
    /\ evTitle' = req[r].title
    /\ evSlug' = req[r].slug
    /\ GroupSendAll(EventUpdatedSends(req[r].slug, "locked"))
    /\ Completed("http_lock", req[r].user, {}, req[r].at, "locked")
    /\ req' = [req EXCEPT ![r] = IdleRequest]
    /\ UNCHANGED <<uncommitted, timeslots, layerUp, tasks, now, votes, groups, sessVars, ops>>

\* EventViewSet.update up to serializer.is_valid(): get_object with
\* IsEventCreatorOrReadOnly and CanModifyEventContent, and
\* EventUpdateSerializer.validate; the request keeps the instance it loaded
HttpUpdateRead(r, users, titles) ==
    /\ req[r].pc = "idle"
    /\ ops < MaxOps
    /\ ops' = ops + 1
    /\ \E u \in users, t \in titles :
        IF u = EventCreator /\ evStatus # "locked"
        THEN /\ req' = [req EXCEPT ![r] =
                    [Loaded("update_save", u, {}, "PATCH", {}, 0)
                        EXCEPT !.newTitle = t]]
             /\ UNCHANGED lastOp
        ELSE /\ Completed("http_update", u, {}, now, "refused")
             /\ UNCHANGED req
    /\ UNCHANGED <<layerUp, tasks, dbVars, layerVars, sessVars>>

\* the slug loop of EventUpdateSerializer.update: the base slug, or the base
\* slug with -1 when another event has it
unique_slug(base) ==
    IF base = SiblingSlug THEN base \o <<"-", "1">> ELSE base

\* EventUpdateSerializer.update: a new slug when the title changes, then
\* instance.save(), which writes every field of the loaded instance, its
\* status too, and the post_save receiver of Event
HttpUpdateSave(r) ==
    /\ req[r].pc = "update_save"
    /\ LET retitled == req[r].newTitle # NoTitle
                        /\ req[r].newTitle # req[r].title
           slug == IF retitled THEN unique_slug(slugify(req[r].newTitle))
                               ELSE req[r].slug
       IN  /\ evStatus' = req[r].status
           /\ evTitle' = IF req[r].newTitle # NoTitle THEN req[r].newTitle
                                                      ELSE req[r].title
           /\ evSlug' = slug
           /\ GroupSendAll(EventUpdatedSends(slug, req[r].status))
    /\ Completed("http_update", req[r].user, {}, req[r].at, "modified")
    /\ req' = [req EXCEPT ![r] = IdleRequest]
    /\ UNCHANGED <<uncommitted, timeslots, layerUp, tasks, now, votes, groups, sessVars, ops>>

\* TimeSlotViewSet.create up to serializer.save(): validate_datetime, and the
\* status and creator checks of perform_create on the event it has just read;
\* one more row than the initial ones is modelled
HttpTimeslotCreateValidate(r, users) ==
    /\ req[r].pc = "idle"
    /\ ops < MaxOps
    /\ ops' = ops + 1
    /\ NewTimeslotId \notin timeslots
    /\ \E u \in users :
        IF /\ ~(TimeslotDatetime(NewTimeslotId) <= now)
           /\ evStatus # "locked"
           /\ u = EventCreator
        THEN /\ Begin(r, "timeslot_save", u, {NewTimeslotId}, "POST", {}, 0)
             /\ UNCHANGED lastOp
        ELSE /\ Completed("http_timeslot_create", u, {NewTimeslotId}, now,
                          "refused")
             /\ UNCHANGED req
    /\ UNCHANGED <<layerUp, tasks, dbVars, layerVars, sessVars>>

\* TimeSlotViewSet.perform_create, serializer.save(event=event): the insert,
\* which unique_together of TimeSlot may refuse, and the post_save receiver
HttpTimeslotCreateSave(r) ==
    /\ req[r].pc = "timeslot_save"
    /\ IF NewTimeslotId \in timeslots
       THEN /\ Completed("http_timeslot_create", req[r].user, req[r].ts,
                         req[r].at, "error")
            /\ UNCHANGED <<timeslots, inbox, published, nextId>>
       ELSE /\ timeslots' = timeslots \cup {NewTimeslotId}
            /\ GroupSendAll(TimeslotSends(req[r].slug, "timeslot_added"))
            /\ Completed("http_timeslot_create", req[r].user, req[r].ts,
                         req[r].at, "added")
    /\ req' = [req EXCEPT ![r] = IdleRequest]
    /\ UNCHANGED <<uncommitted, layerUp, tasks, now, evStatus, evTitle, evSlug, votes, groups, sessVars, ops>>

\* TimeSlotViewSet.update, partial_update and destroy: get_object, then
\* check_object_permissions, which refuses a user who is not the creator and
\* then calls IsEventCreatorOrReadOnly.has_object_permission on the
\* timeslot; that reads obj.created_by, which TimeSlot does not have, so the
\* request of the creator ends with AttributeError before anything is
\* written
HttpTimeslotModify(r, users, ids, methods) ==
    /\ req[r].pc = "idle"
    /\ ops < MaxOps
    /\ ops' = ops + 1
    /\ \E u \in users, t \in ids, method \in methods :
        Completed(IF method = "DELETE" THEN "http_timeslot_delete"
                                       ELSE "http_timeslot_update",
                  u, {t}, now,
                  IF t \notin timeslots \/ u # EventCreator
                  THEN "refused" ELSE "error")
    /\ UNCHANGED <<layerUp, tasks, dbVars, layerVars, sessVars, req>>

\* TaskUpdateSerializer.VALID_STATUS_TRANSITIONS
VALID_STATUS_TRANSITIONS(current) ==
    CASE current = "todo"  -> {"doing", "done"}
      [] current = "doing" -> {"todo", "done"}
      [] current = "done"  -> {"doing"}
      [] OTHER             -> {}

\* TaskViewSet.update and partial_update: get_object calls get_queryset,
\* whose filter on timeslots__votes__user names a relation Event does not
\* have (the related name of TimeSlot.event is time_slots), so filter raises
\* FieldError for every authenticated user before a task is loaded; the
\* update and partial_update of EventTaskViewSet answer 405
HttpTaskUpdate(r, users, ids) ==
    /\ req[r].pc = "idle"
    /\ ops < MaxOps
    /\ ops' = ops + 1
    /\ \E u \in users, id \in ids :
        Completed("http_task_update", u, {id}, now, "error")
    /\ UNCHANGED <<layerUp, tasks, dbVars, layerVars, sessVars, req>>

\* time passes
Tick ==
    /\ now < MaxTime
    /\ now' = now + 1
    /\ UNCHANGED <<uncommitted, timeslots, layerUp, tasks, evStatus, evTitle, evSlug, votes, layerVars, sessVars, req, lastOp, ops>>

(* ------------------------ channel layer failure ------------------------ *)

\* the transport of the channel layer goes down, and comes back
LayerFails ==
    /\ layerUp
    /\ layerUp' = FALSE
    /\ UNCHANGED <<dbVars, tasks, layerVars, sessVars, req, lastOp, ops>>

LayerRecovers ==
    /\ ~layerUp
    /\ layerUp' = TRUE
    /\ UNCHANGED <<dbVars, tasks, layerVars, sessVars, req, lastOp, ops>>

\* VoteViewSet.perform_create while group_send raises: the row is inserted,
\* the post_save receiver raises out of save() and the request ends with an
\* error
HttpCreateSaveLayerDown(r) ==
    /\ req[r].pc = "create_save"
    /\ ~layerUp
    /\ LET u == req[r].user
           t == CHOOSE x \in req[r].ts : TRUE
       IN  /\ ~RowLocked(u, t)
           /\ ~HasVote(u, t)
           /\ votes' = votes \cup {VoteRow(u, t)}
           /\ Completed("http_create", u, {t}, req[r].at, "error")
    /\ req' = [req EXCEPT ![r] = IdleRequest]
    /\ UNCHANGED <<uncommitted, timeslots, tasks, layerUp, now, evStatus, evTitle, evSlug, layerVars, sessVars, ops>>

\* EventLockSerializer.save while group_send raises: the status is saved,
\* the post_save receiver raises out of save() and the request ends with an
\* error
HttpLockSaveLayerDown(r) ==
    /\ req[r].pc = "lock_save"
    /\ ~layerUp
    /\ evStatus' = "locked"
    /\ evTitle' = req[r].title
    /\ evSlug' = req[r].slug
    /\ Completed("http_lock", req[r].user, {}, req[r].at, "error")
    /\ req' = [req EXCEPT ![r] = IdleRequest]
    /\ UNCHANGED <<uncommitted, timeslots, tasks, layerUp, now, votes, layerVars, sessVars, ops>>

\* VotingConsumer.add_vote while group_send raises: get_or_create inserts
\* inside an atomic block, the post_save receiver raises through it, the
\* insert is rolled back and receive answers with an error
SocketVoteAddLayerDown(s) ==
    /\ pc[s] = "add_vote_write"
    /\ ~layerUp
    /\ ~RowLocked(user[s], frame[s].arg)
    /\ get_or_create(user[s], frame[s].arg).created
    /\ send_error(s, "Internal server error", <<>>)
    /\ Completed("socket_add", user[s], {frame[s].arg}, frame[s].at, "error")
    /\ pc' = [pc EXCEPT ![s] = "ready"]
    /\ UNCHANGED <<tasks, layerUp, dbVars, layerVars, scope, user, event_slug,
                   room_group_name, accepted, closeCode, raised, seenStatus,
                   frame, discCalls, req, ops>>

(* ---------------------------- specification ----------------------------- *)

InitBase ==
    /\ now = 0
    /\ evStatus = "draft"
    /\ evTitle = EventTitle
    /\ evSlug = EventSlug
    /\ votes = {}
    /\ uncommitted = {}
    /\ tasks = InitialTasks
    /\ layerUp = TRUE
    /\ groups = {}
    /\ inbox = [s \in Sessions |-> <<>>]
    /\ published = {}
    /\ nextId = 1
    /\ pc = [s \in Sessions |-> "idle"]
    /\ scope = [s \in Sessions |->
                    [kind |-> "event", token |-> "none", slug |-> NoSlug]]
    /\ user = [s \in Sessions |-> NoUser]
    /\ event_slug = [s \in Sessions |-> NoSlug]
    /\ room_group_name = [s \in Sessions |-> NoRoom]
    /\ accepted = [s \in Sessions |-> FALSE]
    /\ closeCode = [s \in Sessions |-> 0]
    /\ raised = [s \in Sessions |-> "none"]
    /\ seenStatus = [s \in Sessions |-> "unread"]
    /\ out = [s \in Sessions |-> <<>>]
    /\ frame = [s \in Sessions |-> Frame("malformed", FALSE, <<>>, 0)]
    /\ discCalls = [s \in Sessions |-> 0]
    /\ req = [r \in Requests |-> IdleRequest]
    /\ lastOp = [n |-> 0, entry |-> "none", user |-> NoUser,
                 timeslots |-> {}, at |-> 0, result |-> "none"]
    /\ ops = 0

Init ==
    /\ InitBase
    /\ timeslots = TimeslotIds

\* EventCreateSerializer takes timeslots with required=False: the event was
\* created with its two timeslots or with none
InitSlots ==
    /\ InitBase
    /\ timeslots \in {{}, TimeslotIds}

\* one connection that tries every handshake, while the creator may lock the
\* event
NextHandshake ==
    \/ ConnectAuthenticate("s1", AllScopes)
    \/ ConnectCheckAccess("s1")
    \/ ConnectJoin("s1")
    \/ ConnectAccept("s1")
    \/ ConnectSnapshot("s1")
    \/ Deliver("s1")
    \/ Disconnect("s1")
    \/ HttpLockValidate("r1", {EventCreator})
    \/ HttpLockSave("r1")

SpecHandshake ==
    Init /\ [][NextHandshake]_vars

\* two connections of one user on any of the three channels, while votes
\* are added over HTTP and the creator may lock the event
RoomScopes ==
    [kind : Kinds, token : {"bob"}, slug : {EventSlug}]

NextRooms ==
    \/ \E s \in Sessions : ConnectAuthenticate(s, RoomScopes)
    \/ \E s \in Sessions : ConnectCheckAccess(s)
    \/ \E s \in Sessions : ConnectJoin(s)
    \/ \E s \in Sessions : ConnectAccept(s)
    \/ \E s \in Sessions : ConnectSnapshot(s)
    \/ \E s \in Sessions : Deliver(s)
    \/ \E s \in Sessions : Disconnect(s)
    \/ HttpCreateValidate("r1", {"bob"}, {2})
    \/ HttpCreateSave("r1")
    \/ HttpLockValidate("r2", {EventCreator})
    \/ HttpLockSave("r2")

SpecRooms ==
    Init /\ [][NextRooms]_vars

\* one connection on any channel that is sent every kind of frame
FrameScopes ==
    [kind : Kinds, token : {"bob"}, slug : {EventSlug}]

NextFrames ==
    \/ ConnectAuthenticate("s1", FrameScopes)
    \/ ConnectCheckAccess("s1")
    \/ ConnectJoin("s1")
    \/ ConnectAccept("s1")
    \/ ConnectSnapshot("s1")
    \/ Deliver("s1")
    \/ Receive("s1", Frames)
    \/ SocketVoteCheck("s1")
    \/ SocketVoteAdd("s1")
    \/ SocketVoteCommit("s1")
    \/ SocketVoteCount("s1")
    \/ SocketVoteRemove("s1")

SpecFrames ==
    Init /\ [][NextFrames]_vars

\* every entry point that adds or removes a vote: one voting connection and
\* two concurrent HTTP requests, while time passes
VoteScopes ==
    [kind : {"voting"}, token : {"bob"}, slug : {EventSlug}]

VoteFrames ==
    {Frame("object", TRUE, <<"vote_add">>, 1),
     Frame("object", TRUE, <<"vote_remove">>, 1)}

NextVotes ==
    \/ ConnectAuthenticate("s1", VoteScopes)
    \/ ConnectCheckAccess("s1")
    \/ ConnectJoin("s1")
    \/ ConnectAccept("s1")
    \/ ConnectSnapshot("s1")
    \/ Deliver("s1")
    \/ Receive("s1", VoteFrames)
    \/ SocketVoteCheck("s1")
    \/ SocketVoteAdd("s1")
    \/ SocketVoteCommit("s1")
    \/ SocketVoteCount("s1")
    \/ SocketVoteRemove("s1")
    \/ \E r \in Requests : HttpCreateValidate(r, {"bob"}, {1, 9})
    \/ \E r \in Requests : HttpCreateSave(r)
    \/ \E r \in Requests : HttpToggleRead(r, {"bob"}, {1, 9})
    \/ \E r \in Requests : HttpToggleWrite(r)
    \/ \E r \in Requests : HttpToggleCommit(r)
    \/ \E r \in Requests : HttpBulkValidate(r, {"bob"}, {{1}, {1, 2}, {9}})
    \/ \E r \in Requests : HttpBulkSave(r)
    \/ Tick

SpecVotes ==
    Init /\ [][NextVotes]_vars

\* the creator locks and edits the event over two concurrent requests while
\* votes are added over every entry point, by the creator too
LockScopes ==
    [kind : {"voting"}, token : {"alice", "bob"}, slug : {EventSlug}]

LockFrames ==
    {Frame("object", TRUE, <<"vote_add">>, 2)}

NextLock ==
    \/ ConnectAuthenticate("s1", LockScopes)
    \/ ConnectCheckAccess("s1")
    \/ ConnectJoin("s1")
    \/ ConnectAccept("s1")
    \/ ConnectSnapshot("s1")
    \/ Deliver("s1")
    \/ Receive("s1", LockFrames)
    \/ SocketVoteCheck("s1")
    \/ SocketVoteAdd("s1")
    \/ SocketVoteCommit("s1")
    \/ SocketVoteCount("s1")
    \/ \E r \in Requests : HttpLockValidate(r, Principals)
    \/ \E r \in Requests : HttpLockSave(r)
    \/ \E r \in Requests : HttpUpdateRead(r, Principals, {NoTitle})
    \/ \E r \in Requests : HttpUpdateSave(r)
    \/ HttpCreateValidate("r1", Principals, {2})
    \/ HttpCreateSave("r1")
    \/ HttpToggleRead("r1", Principals, {2})
    \/ HttpToggleWrite("r1")
    \/ HttpToggleCommit("r1")
    \/ HttpBulkValidate("r1", Principals, {{2}})
    \/ HttpBulkSave("r1")

SpecLock ==
    Init /\ [][NextLock]_vars

\* one connection on the tasks channel, of the creator or of another user,
\* that creates, updates and deletes tasks while the creator may lock the
\* event
TaskScopes ==
    [kind : {"tasks"}, token : {"alice", "bob"}, slug : {EventSlug}]

TaskUpdates ==
    {{}, {<<"status", "done">>}, {<<"status", "bogus">>},
     {<<"title", "t9">>}, {<<"title", "">>},
     {<<"assigned_to_id", "alice">>}, {<<"assigned_to_id", "">>},
     {<<"assigned_to_id", "ghost">>},
     {<<"status", "doing">>, <<"title", "t9">>}}

TaskFrames ==
    {TaskFrame("task_update", id, u) : id \in {0, 1, 2, 9}, u \in TaskUpdates}
    \cup {TaskFrame("task_delete", id, {}) : id \in {0, 1, 2, 9}}
    \cup {TaskFrame("task_create", 0, d) :
            d \in {{}, {<<"title", "">>}, {<<"title", "t3">>}}}

NextTasks ==
    \/ ConnectAuthenticate("s1", TaskScopes)
    \/ ConnectCheckAccess("s1")
    \/ ConnectJoin("s1")
    \/ ConnectAccept("s1")
    \/ ConnectSnapshot("s1")
    \/ Deliver("s1")
    \/ ReceiveTask("s1", TaskFrames)
    \/ HttpLockValidate("r1", {EventCreator})
    \/ HttpLockSave("r1")

SpecTasks ==
    Init /\ [][NextTasks]_vars

\* votes are added and the event is locked while the transport of the
\* channel layer may be down
FabricFrames ==
    {Frame("object", TRUE, <<"vote_add">>, 2)}

NextFabric ==
    \/ LayerFails
    \/ LayerRecovers
    \/ ConnectAuthenticate("s1", VoteScopes)
    \/ ConnectCheckAccess("s1")
    \/ ConnectJoin("s1")
    \/ ConnectAccept("s1")
    \/ ConnectSnapshot("s1")
    \/ Deliver("s1")
    \/ Receive("s1", FabricFrames)
    \/ SocketVoteCheck("s1")
    \/ SocketVoteAdd("s1")
    \/ SocketVoteCommit("s1")
    \/ SocketVoteCount("s1")
    \/ SocketVoteAddLayerDown("s1")
    \/ HttpCreateValidate("r1", {"bob"}, {2})
    \/ HttpCreateSave("r1")
    \/ HttpCreateSaveLayerDown("r1")
    \/ HttpLockValidate("r2", {EventCreator})
    \/ HttpLockSave("r2")
    \/ HttpLockSaveLayerDown("r2")

SpecFabric ==
    Init /\ [][NextFabric]_vars

\* a connection of the creator on the tasks channel changes tasks, votes are
\* added and removed over HTTP, and a second connection joins any room of the
\* event or of the other event
TargetScopes ==
    [kind : Kinds, token : {"bob"}, slug : {EventSlug, SiblingSlug}]

CreatorTaskScopes ==
    [kind : {"tasks"}, token : {EventCreator}, slug : {EventSlug}]

TargetFrames ==
    {TaskFrame("task_create", 0, {<<"title", "t3">>}),
     TaskFrame("task_update", 1, {<<"status", "done">>}),
     TaskFrame("task_delete", 1, {})}

NextTargets ==
    \/ ConnectAuthenticate("s1", TargetScopes)
    \/ ConnectAuthenticate("s2", CreatorTaskScopes)
    \/ \E s \in Sessions : ConnectCheckAccess(s)
    \/ \E s \in Sessions : ConnectJoin(s)
    \/ \E s \in Sessions : ConnectAccept(s)
    \/ \E s \in Sessions : ConnectSnapshot(s)
    \/ \E s \in Sessions : Deliver(s)
    \/ ReceiveTask("s2", TargetFrames)
    \/ HttpToggleRead("r1", {"bob"}, {2})
    \/ HttpToggleWrite("r1")
    \/ HttpToggleCommit("r1")

SpecTargets ==
    Init /\ [][NextTargets]_vars

\* one voting connection of bob adds a vote over the socket while carol adds
\* or removes her vote on the same timeslot over HTTP
CountFrames ==
    {Frame("object", TRUE, <<"vote_add">>, 2)}

NextCounts ==
    \/ ConnectAuthenticate("s1", VoteScopes)
    \/ ConnectCheckAccess("s1")
    \/ ConnectJoin("s1")
    \/ ConnectAccept("s1")
    \/ ConnectSnapshot("s1")
    \/ Deliver("s1")
    \/ Receive("s1", CountFrames)
    \/ SocketVoteCheck("s1")
    \/ SocketVoteAdd("s1")
    \/ SocketVoteCommit("s1")
    \/ SocketVoteCount("s1")
    \/ HttpCreateValidate("r1", {"carol"}, {2})
    \/ HttpCreateSave("r1")
    \/ HttpToggleRead("r2", {"carol"}, {2})
    \/ HttpToggleWrite("r2")
    \/ HttpToggleCommit("r2")

SpecCounts ==
    Init /\ [][NextCounts]_vars

\* one connection on the tasks channel, of the creator or of the assignee,
\* sets the status of the tasks to any value, and the status is updated over
\* HTTP
StatusFrames ==
    {TaskFrame("task_update", id, {<<"status", st>>}) :
        id \in {1, 2}, st \in {"todo", "doing", "done"}}

NextStatus ==
    \/ ConnectAuthenticate("s1", TaskScopes)
    \/ ConnectCheckAccess("s1")
    \/ ConnectJoin("s1")
    \/ ConnectAccept("s1")
    \/ ConnectSnapshot("s1")
    \/ Deliver("s1")
    \/ ReceiveTask("s1", StatusFrames)
    \/ HttpTaskUpdate("r1", Principals, {1, 2})

SpecStatus ==
    Init /\ [][NextStatus]_vars

\* a connection on any channel and a connection of the creator on the tasks
\* channel, while every trigger fires: the event is updated or locked, a
\* timeslot is added, a vote is added and tasks are changed
TriggerScopes ==
    [kind : Kinds, token : {"bob"}, slug : {EventSlug}]

NextTriggers ==
    \/ ConnectAuthenticate("s1", TriggerScopes)
    \/ ConnectAuthenticate("s2", CreatorTaskScopes)
    \/ \E s \in Sessions : ConnectCheckAccess(s)
    \/ \E s \in Sessions : ConnectJoin(s)
    \/ \E s \in Sessions : ConnectAccept(s)
    \/ \E s \in Sessions : ConnectSnapshot(s)
    \/ \E s \in Sessions : Deliver(s)
    \/ ReceiveTask("s2", TargetFrames)
    \/ HttpUpdateRead("r1", {EventCreator}, {NoTitle})
    \/ HttpUpdateSave("r1")
    \/ HttpLockValidate("r1", {EventCreator})
    \/ HttpLockSave("r1")
    \/ HttpTimeslotCreateValidate("r2", {EventCreator})
    \/ HttpTimeslotCreateSave("r2")
    \/ HttpCreateValidate("r2", {"carol"}, {2})
    \/ HttpCreateSave("r2")

SpecTriggers ==
    Init /\ [][NextTriggers]_vars

\* a connection on the general channel, made with the first slug of the
\* event or with the slug of its new title, while the creator edits the
\* event, with or without a new title, and locks it, and a vote is added
RenameScopes ==
    [kind : {"event"}, token : {"bob"},
     slug : {EventSlug, slugify(NewTitle)}]

NextRename ==
    \/ ConnectAuthenticate("s1", RenameScopes)
    \/ ConnectCheckAccess("s1")
    \/ ConnectJoin("s1")
    \/ ConnectAccept("s1")
    \/ ConnectSnapshot("s1")
    \/ Deliver("s1")
    \/ Disconnect("s1")
    \/ HttpUpdateRead("r1", {EventCreator}, {NoTitle, NewTitle})
    \/ HttpUpdateSave("r1")
    \/ HttpLockValidate("r2", {EventCreator})
    \/ HttpLockSave("r2")
    \/ HttpCreateValidate("r2", {"carol"}, {2})
    \/ HttpCreateSave("r2")

SpecRename ==
    Init /\ [][NextRename]_vars

\* a voting connection of bob that may open at any time, next to a voting
\* connection of carol on which she adds and removes her vote on timeslot 2
JoinScopes ==
    [kind : {"voting"}, token : {"carol"}, slug : {EventSlug}]

JoinFrames ==
    {Frame("object", TRUE, <<"vote_add">>, 2),
     Frame("object", TRUE, <<"vote_remove">>, 2)}

NextJoin ==
    \/ ConnectAuthenticate("s1", VoteScopes)
    \/ ConnectAuthenticate("s2", JoinScopes)
    \/ \E s \in Sessions : ConnectCheckAccess(s)
    \/ \E s \in Sessions : ConnectJoin(s)
    \/ \E s \in Sessions : ConnectAccept(s)
    \/ \E s \in Sessions : ConnectSnapshot(s)
    \/ \E s \in Sessions : Deliver(s)
    \/ Receive("s2", JoinFrames)
    \/ SocketVoteCheck("s2")
    \/ SocketVoteAdd("s2")
    \/ SocketVoteRemove("s2")
    \/ SocketVoteCommit("s2")
    \/ SocketVoteCount("s2")

SpecJoin ==
    Init /\ [][NextJoin]_vars

\* the lock of the event next to the requests that add, change or delete a
\* timeslot, with a connection on the general room
SlotScopes ==
    [kind : {"event"}, token : {"bob"}, slug : {EventSlug}]

NextSlots ==
    \/ ConnectAuthenticate("s1", SlotScopes)
    \/ ConnectCheckAccess("s1")
    \/ ConnectJoin("s1")
    \/ ConnectAccept("s1")
    \/ ConnectSnapshot("s1")
    \/ Deliver("s1")
    \/ HttpLockValidate("r1", Principals)
    \/ HttpLockSave("r1")
    \/ HttpTimeslotCreateValidate("r2", Principals)
    \/ HttpTimeslotCreateSave("r2")
    \/ HttpTimeslotModify("r2", Principals, {1, 9}, {"PATCH", "DELETE"})

SpecSlots ==
    InitSlots /\ [][NextSlots]_vars

(* ------------------------------- claims --------------------------------- *)

Rooms ==
    {RoomName(k, EventSlug) : k \in Kinds}

TimesSent(s, id) ==
    Cardinality({i \in 1..Len(out[s]) : out[s][i].id = id})

Queued(s, id) ==
    \E i \in 1..Len(inbox[s]) : inbox[s][i].id = id

\* C1: every envelope a trigger publishes to a room is sent exactly once to
\* each session that was joined to the room at the publish (once the session,
\* still connected, has taken it from its queue), and never to a session that
\* was not joined to the room.
C1_DeliveredExactlyOnce ==
    \A p \in published : \A s \in Sessions :
        /\ TimesSent(s, p.id) <= 1
        /\ s \notin p.members => TimesSent(s, p.id) = 0 /\ ~Queued(s, p.id)
        /\ (s \in p.members /\ discCalls[s] = 0 /\ ~Queued(s, p.id))
              => TimesSent(s, p.id) = 1

\* C2: once disconnect was called on a session, the session is a member of
\* no room, no later publish queues a message for it, and nothing more is
\* sent to it.
C2_NoDeliveryAfterDisconnect ==
    /\ [](\A s \in Sessions :
            discCalls[s] >= 1 => \A room \in Rooms : <<room, s>> \notin groups)
    /\ [][\A s \in Sessions :
            discCalls[s] >= 1 =>
                /\ Len(inbox'[s]) <= Len(inbox[s])
                /\ out'[s] = out[s]
                /\ \A p \in published' \ published : s \notin p.members]_vars

\* a joined session got an envelope, disconnected, and a later envelope of
\* the same room went out without it
C2_Witness ==
    /\ discCalls["s1"] >= 1
    /\ accepted["s1"]
    /\ \E p \in published, q \in published :
        /\ p.room = room_group_name["s1"]
        /\ q.room = room_group_name["s1"]
        /\ p.id < q.id
        /\ "s1" \in p.members
        /\ "s1" \notin q.members
        /\ "s2" \in q.members

\* C3: a session is in a room's membership set if and only if it has that
\* room open (it passed the handshake checks, joined, and has not
\* disconnected or ended); a session closed with 4000-4003 is in no set.
C3_MembershipIffOpen ==
    \A s \in Sessions :
        /\ \A g \in groups :
              g[2] = s =>
                /\ g[1] = room_group_name[s]
                /\ closeCode[s] = 0
                /\ pc[s] \notin {"idle", "access", "join", "stopped", "crashed"}
        /\ (/\ room_group_name[s] # NoRoom
            /\ closeCode[s] = 0
            /\ pc[s] \notin {"idle", "access", "join", "stopped", "crashed"})
              => <<room_group_name[s], s>> \in groups
        /\ closeCode[s] \in 4000..4003 => \A g \in groups : g[2] # s

\* C8: disconnect is idempotent: a disconnect call on a session that was
\* already disconnected, or that never joined a room, leaves the room
\* registry as it was.
C8_DisconnectIdempotent ==
    [][\A s \in Sessions :
        (/\ discCalls'[s] = discCalls[s] + 1
         /\ (discCalls[s] >= 1 \/ room_group_name[s] = NoRoom))
            => groups' = groups]_vars

\* disconnect ran twice on a session that had joined a room another session
\* is still in
C8_Witness ==
    /\ discCalls["s1"] = 2
    /\ accepted["s1"]
    /\ room_group_name["s1"] # NoRoom
    /\ <<room_group_name["s1"], "s2">> \in groups

HandshakeOver(s) ==
    pc[s] \in {"snapshot", "ready", "stopped", "crashed"}

C5_LockedVotingDenied ==
    \A s \in Sessions :
        (scope[s].kind = "voting" /\ seenStatus[s] = "locked") =>
            /\ closeCode[s] = 4003
            /\ ~accepted[s]
            /\ room_group_name[s] = NoRoom
            /\ \A g \in groups : g[2] # s

\* a voting handshake met the locked event and is over
C5_Witness ==
    /\ scope["s1"].kind = "voting"
    /\ seenStatus["s1"] = "locked"
    /\ evStatus = "locked"
    /\ pc["s1"] \in {"ready", "stopped"}

SnapshotTypes ==
    {"event_data", "voting_data", "tasks_data"}

\* C6: a session whose handshake ended in a close (4000-4003) is sent
\* nothing more: the snapshot goes only to a session that was accepted and
\* joined.
C6_SnapshotOnlyWhenJoined ==
    \A s \in Sessions :
        \A i \in 1..Len(out[s]) :
            out[s][i].type \in SnapshotTypes =>
                /\ closeCode[s] = 0
                /\ accepted[s]
                /\ room_group_name[s] # NoRoom

\* the message types a channel dispatches to a handler
KnownTypes(kind) ==
    CASE kind = "event"  -> {<<"ping">>}
      [] kind = "voting" -> {<<"vote_add">>, <<"vote_remove">>}
      [] kind = "tasks"  -> {<<"task_create">>, <<"task_update">>,
                             <<"task_delete">>}

\* C7: for a frame that is malformed JSON, JSON without a type, JSON with a
\* type that has no handler on the channel, or whose handler raises, receive
\* answers with one error envelope (naming the type when the type is
\* unknown), does not close the connection and leaves the room membership
\* unchanged.
C7_BadFrameAnswered ==
    [][\A s \in Sessions :
        LET f == frame'[s]
            unknown == /\ f.json = "object"
                       /\ f.hasType
                       /\ f.type \notin KnownTypes(scope[s].kind)
            bad == \/ f.json # "object"
                   \/ ~f.hasType
                   \/ unknown
                   \/ f.arg = -1
        IN  (pc[s] = "ready" /\ ops' = ops + 1 /\ out'[s] # out[s] /\ bad) =>
                /\ Len(out'[s]) = Len(out[s]) + 1
                /\ out'[s][Len(out'[s])].type = "error"
                /\ (unknown =>
                      /\ out'[s][Len(out'[s])].hasDetails
                      /\ out'[s][Len(out'[s])].details = f.type)
                /\ pc'[s] = "ready"
                /\ closeCode'[s] = 0
                /\ groups' = groups]_vars

AddEntries ==
    {"socket_add", "http_create", "http_toggle", "http_bulk"}

\* C9: a vote-add request received when the datetime of one of its
\* timeslots is not strictly in the future creates no vote, whichever entry
\* point the request used.
C9_NoVoteOnPastTimeslot ==
    [][(/\ lastOp'.n = lastOp.n + 1
        /\ lastOp'.entry \in AddEntries
        /\ \E t \in lastOp'.timeslots \cap TimeslotIds :
              TimeslotDatetime(t) <= lastOp'.at)
          => (lastOp'.result # "added" /\ votes' \subseteq votes)]_vars


\* the step completes a vote-add of a user who has a vote on every timeslot
\* of the request already
DuplicateAdd(entries) ==
    /\ lastOp'.n = lastOp.n + 1
    /\ lastOp'.entry \in entries
    /\ lastOp'.timeslots # {}
    /\ \A t \in lastOp'.timeslots : HasVote(lastOp'.user, t)

NewSends ==
    published' \ published

CompletedBy(entries) ==
    lastOp'.n = lastOp.n + 1 /\ lastOp'.entry \in entries

AddedBy(entries) ==
    CompletedBy(entries) /\ lastOp'.result = "added"

\* the step refuses the request: no vote changes, nothing is published
StepRefused ==
    /\ lastOp'.result = "refused"
    /\ votes' = votes
    /\ NewSends = {}

\* the step adds one vote of the user and publishes one vote_update to the
\* voting room and one to the general room
StepAddedOne ==
    /\ \E t \in lastOp'.timeslots :
          /\ ~HasVote(lastOp'.user, t)
          /\ \E v \in votes' :
                /\ v.user = lastOp'.user
                /\ v.timeslot = t
                /\ votes' = votes \cup {v}
    /\ Cardinality(NewSends) = 2
    /\ \A p \in NewSends : p.msg = "vote_update" /\ p.action = "added"
    /\ {p.room : p \in NewSends} =
          {RoomName("voting", EventSlug), RoomName("event", EventSlug)}

\* the step removes the vote and publishes the removal to both rooms
StepRemoved ==
    /\ lastOp'.result = "removed"
    /\ \A t \in lastOp'.timeslots : VotesOf(lastOp'.user, t) # {}
    /\ votes' = votes \ {v \in votes : v.user = lastOp'.user
                                       /\ v.timeslot \in lastOp'.timeslots}
    /\ Cardinality(NewSends) = 2
    /\ \A p \in NewSends : p.msg = "vote_update" /\ p.action = "removed"

LockEnvelopes(kind) ==
    {p \in published : p.room = RoomName(kind, EventSlug)
                       /\ p.action = "locked"}

\* C11: the step that locks the event publishes exactly one lock envelope to
\* the general room and exactly one to the voting room, and in no state has
\* either room been sent a second lock envelope.
C11_OneLockEnvelopePerRoom ==
    /\ [][(CompletedBy({"http_lock"}) /\ lastOp'.result = "locked") =>
            \A kind \in {"event", "voting"} :
                Cardinality({p \in NewSends :
                    p.room = RoomName(kind, EventSlug)
                    /\ p.action = "locked"}) = 1]_vars
    /\ [](\A kind \in {"event", "voting"} :
            Cardinality(LockEnvelopes(kind)) <= 1)

\* C12: once the lock of the event is committed, no step of any entry point
\* creates a vote on one of its timeslots, and a vote-add request that
\* arrives after the lock is refused.
C12_NoVoteAfterLock ==
    [][evStatus = "locked" =>
          /\ votes' \subseteq votes
          /\ CompletedBy(AddEntries) => lastOp'.result # "added"]_vars

\* C13: in every state no vote belongs to the creator of the event that
\* owns its timeslot.
C13_NoVoteByCreator ==
    \A v \in votes : v.user # EventCreator

\* the tasks a completed socket request named that existed before the step
NamedTasks ==
    {id \in lastOp'.timeslots \cap TaskIds : tasks[id] # NoTask}

\* C14: a task_update over the socket by a sender who is neither the event's
\* creator nor the task's assignee, and a task_delete over the socket by a
\* sender who is not the event's creator, leave the task unchanged and are
\* refused.
C14_SocketTaskWritesAuthorized ==
    [][/\ CompletedBy({"socket_task_update"}) =>
            \A id \in NamedTasks :
                lastOp'.user \notin {EventCreator, tasks[id].assigned_to} =>
                    tasks' = tasks /\ lastOp'.result = "refused"
       /\ CompletedBy({"socket_task_delete"}) =>
            \A id \in NamedTasks :
                lastOp'.user # EventCreator =>
                    tasks' = tasks /\ lastOp'.result = "refused"]_vars

\* C15: while the event is locked, a task_update over the socket changes a
\* task only when its sender is the task's assignee, and never changes the
\* title or the assignee of a task.
C15_LockedTaskOnlyStatusByAssignee ==
    [][(evStatus = "locked" /\ CompletedBy({"socket_task_update"})) =>
          \A id \in NamedTasks :
              /\ tasks'[id] # tasks[id] =>
                    lastOp'.user = tasks[id].assigned_to
              /\ tasks'[id].title = tasks[id].title
              /\ tasks'[id].assigned_to = tasks[id].assigned_to]_vars

\* the vote rows a step creates or deletes
VoteRowsChanged ==
    (votes' \ votes) \cup (votes \ votes')

VoteUpdatesSent(kind) ==
    {p \in NewSends : p.room = RoomName(kind, EventSlug)
                      /\ p.msg = "vote_update"}

\* C16: a step that creates or deletes vote rows publishes, to the voting
\* room and to the general room, one vote_update per row or one for the whole
\* request, never none; a step that changes no vote row publishes no
\* vote_update.
C16_OneEnvelopePerVoteMutation ==
    [][\A kind \in {"voting", "event"} :
        IF VoteRowsChanged = {}
        THEN VoteUpdatesSent(kind) = {}
        ELSE Cardinality(VoteUpdatesSent(kind))
                \in {1, Cardinality(VoteRowsChanged)}]_vars

\* C17: an operation whose publish meets a channel layer that is down ends
\* with its normal result, never with an error, and the row it wrote is
\* committed.
C17_PublishFailureNotSurfaced ==
    [][(~layerUp /\ CompletedBy({"socket_add", "http_create", "http_lock"}))
          => /\ lastOp'.result # "error"
             /\ lastOp'.result \in {"added", "locked"} =>
                   (votes' # votes \/ evStatus' # evStatus)]_vars

RoomsOf(slug) ==
    {RoomName(kind, slug) : kind \in Kinds}

\* C18: a step that creates, updates or deletes a task publishes to exactly
\* the tasks room and the general room of the task's event, a step that adds
\* or removes a vote publishes to exactly the voting room and the general room
\* of the vote's event, and no such envelope goes to a room of another event
\* or reaches a session joined for another event.
C18_MutationRooms ==
    [][/\ CompletedBy({"socket_task_create", "socket_task_update",
                       "socket_task_delete"})
            /\ lastOp'.result # "refused"
          => /\ Cardinality(NewSends) = 2
             /\ {p.room : p \in NewSends} =
                    {RoomName("tasks", EventSlug), RoomName("event", EventSlug)}
       /\ votes' # votes
          => /\ Cardinality(NewSends) = 2
             /\ {p.room : p \in NewSends} =
                    {RoomName("voting", EventSlug), RoomName("event", EventSlug)}
       /\ \A p \in NewSends :
            /\ p.room \notin RoomsOf(SiblingSlug)
            /\ \A s \in p.members : event_slug[s] = EventSlug]_vars

\* the positions in what a session was sent that forward a group message
Forwarded(s) ==
    {i \in 1..Len(out[s]) : out[s][i].id # 0}

SentFor(s) ==
    {p \in published : p.id \in {frame[s].sent, frame[s].sent + 1}}

\* C21: the new_vote_count of the vote_added reply to a socket vote_add equals
\* the new_vote_count of the vote_update envelopes published for that vote to
\* the voting and general rooms, also while other users add or remove votes
\* on the timeslot.
C21_ReplyCountIsEnvelopeCount ==
    [][\A s \in Sessions :
        (pc[s] = "add_vote_count" /\ pc'[s] = "ready") =>
            /\ out'[s][Len(out'[s])].type = "vote_added"
            /\ Cardinality(SentFor(s)) = 2
            /\ \A p \in SentFor(s) :
                  /\ p.msg = "vote_update"
                  /\ p.count = out'[s][Len(out'[s])].count]_vars

\* C22: for an existing event, a handshake with a valid credential on the
\* general or the tasks channel joins its room whatever the status of the
\* event and whoever the user is (unless a step of connect raises); on these
\* two channels 4003 is the answer to a slug no event has, and to nothing
\* else.
C22_GeneralAndTasksAdmitAll ==
    \A s \in Sessions :
        (/\ HandshakeOver(s)
         /\ scope[s].kind \in {"event", "tasks"}
         /\ scope[s].token \in Users
         /\ IsActive(scope[s].token)
         /\ scope[s].slug # NoSlug
         /\ raised[s] = "none")
          => IF EventExists(scope[s].slug)
             THEN /\ accepted[s]
                  /\ closeCode[s] = 0
                  /\ room_group_name[s] = RoomName(scope[s].kind, scope[s].slug)
                  /\ discCalls[s] = 0 => <<room_group_name[s], s>> \in groups
             ELSE /\ closeCode[s] = 4003
                  /\ ~accepted[s]
                  /\ \A g \in groups : g[2] # s

\* a user who is not the creator joined the tasks room of the locked event
C22_Witness ==
    /\ scope["s1"].kind = "tasks"
    /\ user["s1"] = "bob"
    /\ seenStatus["s1"] = "locked"
    /\ evStatus = "locked"
    /\ accepted["s1"]
    /\ closeCode["s1"] = 0
    /\ <<RoomName("tasks", EventSlug), "s1">> \in groups

\* C23: a step of any entry point that changes the status of a task moves it
\* along one of todo->doing, todo->done, doing->todo, doing->done and
\* done->doing; no single update moves a task from done to todo.
C23_StatusTransitionsValid ==
    [][\A id \in TaskIds :
        (/\ tasks[id] # NoTask
         /\ tasks'[id] # NoTask
         /\ tasks'[id].status # tasks[id].status)
          => tasks'[id].status \in VALID_STATUS_TRANSITIONS(tasks[id].status)]_vars

\* C24: a step sends an event_locked group message to the voting room of the
\* event only when it leaves the event locked; a save of the draft event
\* sends none.
C24_EventLockedOnlyOnLock ==
    [][\A p \in NewSends :
        (p.room = RoomName("voting", EventSlug) /\ p.type = "event_locked")
            => evStatus' = "locked"]_vars

\* C25: every group message published to a room of the event has a type the
\* consumer class of that room has a handler for, and no session fails on a
\* group message: it forwards the envelope and stays joined.
C25_EveryPublishedTypeHandled ==
    /\ \A p \in published : \A kind \in Kinds :
          p.room = RoomName(kind, EventSlug) => p.type \in GroupHandlers(kind)
    /\ \A s \in Sessions : pc[s] # "crashed"

\* slugs the routing pattern accepts
RoutedSlugs ==
    {EventSlug, SiblingSlug, UnknownSlug}

\* C26: two different pairs of slug and channel never have the same room
\* name, and every envelope of the event is queued only for sessions that
\* connected for that event.
C26_RoomKeyInjective ==
    /\ \A slug1 \in RoutedSlugs, slug2 \in RoutedSlugs :
          \A kind1 \in Kinds, kind2 \in Kinds :
              RoomName(kind1, slug1) = RoomName(kind2, slug2)
                  => (kind1 = kind2 /\ slug1 = slug2)
    /\ \A p \in published : \A s \in p.members :
          event_slug[s] = EventSlug

\* the session is connected and in the general room it joined for the event
JoinedGeneral(s) ==
    /\ scope[s].kind = "event"
    /\ event_slug[s] # SiblingSlug
    /\ pc[s] \in {"snapshot", "ready"}
    /\ accepted[s]
    /\ <<room_group_name[s], s>> \in groups

\* C27: every step that publishes for the event publishes to the general
\* room its connected sessions joined: each of them is a member of a room
\* the step sends to, also after the title of the event was updated.
C27_PublishReachesJoinedSessions ==
    [][NewSends # {} =>
        \A s \in Sessions :
            JoinedGeneral(s) => \E p \in NewSends : s \in p.members]_vars

\* the vote count of timeslot 2 a client computes from what its session sent:
\* the count of the last vote_update envelope, and the count of the
\* voting_data snapshot when no envelope followed
VoteUpdates(s) ==
    {i \in 1..Len(out[s]) : out[s][i].type = "vote_update"}

Snapshots(s) ==
    {i \in 1..Len(out[s]) : out[s][i].type = "voting_data"}

LastTold(s) ==
    IF VoteUpdates(s) # {}
    THEN out[s][CHOOSE i \in VoteUpdates(s) : \A j \in VoteUpdates(s) : j <= i].count
    ELSE out[s][CHOOSE i \in Snapshots(s) : TRUE].counts[2]

\* C28: a session joined on the voting channel loses no vote mutation across
\* the join: once it holds its snapshot, no envelope waits in its queue and
\* no vote write is in progress, the count its client was last told for the
\* timeslot, by the snapshot or by a later vote_update, is the count of the
\* votes on the timeslot
C28_NoMutationLostAcrossJoin ==
    \A s \in Sessions :
        (/\ pc[s] = "ready"
         /\ accepted[s]
         /\ closeCode[s] = 0
         /\ Snapshots(s) # {}
         /\ inbox[s] = <<>>
         /\ uncommitted = {}
         /\ \A x \in Sessions : pc[x] \notin {"add_vote_count", "remove_vote_count"})
            => LastTold(s) = VoteCount(2)

\* C29: the status of the event is monotonic: a step changes it only when it
\* completes a lock, and once the event is locked no step returns it to
\* draft or completes a second lock.
C29_StatusMonotonic ==
    [][/\ evStatus' # evStatus =>
            (CompletedBy({"http_lock"}) /\ lastOp'.result = "locked")
       /\ evStatus = "locked" =>
            /\ evStatus' = "locked"
            /\ ~(CompletedBy({"http_lock"}) /\ lastOp'.result = "locked")]_vars

\* C30: a locked event has at least one timeslot: no lock completes for an
\* event without timeslots, and no step adds, changes or deletes a timeslot
\* of the event while it is locked.
C30_LockedEventKeepsTimeslots ==
    /\ [](evStatus = "locked" => timeslots # {})
    /\ [][/\ (CompletedBy({"http_lock"}) /\ lastOp'.result = "locked") =>
                timeslots # {}
          /\ evStatus = "locked" => timeslots' = timeslots]_vars

====
